---- MODULE Spec2Model ----
(***************************************************************************)
(* Model of the two report generator scripts of dog_walker_app:            *)
(*   generate_pdf_report.py   (PDF first, simplified HTML as fallback)     *)
(*   simple_pdf_generator.py  (standard HTML, then print-optimized HTML)   *)
(* A state is the file system (the Markdown source and the three output    *)
(* files), the standard output of the running process, the position of     *)
(* the process in the script and the locals that survive between steps.    *)
(* A file is a sequence of tokens; a missing file has exists = FALSE.      *)
(***************************************************************************)
EXTENDS Integers, Sequences, FiniteSets

VARIABLES
    fs,                \* path -> [exists, data]: the working directory
    entry,             \* the script this process runs
    pc,                \* position of the process in the script
    pdfkitInstalled,   \* whether `import pdfkit` can succeed in this process
    markdown_content,  \* the local of the conversion function being executed
    ret,               \* function -> "none" | "True" | "False" (return values)
    out,               \* standard output of this process, one entry per print
    renderOutcome,     \* outcome of pdfkit.from_string in this process
    opens,             \* the open() calls of this process, in order
    fsAtStart,         \* the working directory when this process started
    run,               \* number of the current process run
    prev,              \* <<>> or <<summary of the previous run>>
    handles,           \* the paths this process holds an open file object on
    calls              \* the calls this process has made, in order

vars == <<fs, entry, pc, pdfkitInstalled, markdown_content, ret, out,
          renderOutcome, opens, fsAtStart, run, prev, handles, calls>>

-----------------------------------------------------------------------------
(* Bounds *)

MaxBlocks == 2

MaxRuns == 2

-----------------------------------------------------------------------------
(* Paths *)

SourcePath == "IB_CS_HL_Criterion_C_Report.md"

PdfPath == "IB_CS_HL_Criterion_C_Report.pdf"

HtmlPath == "IB_CS_HL_Criterion_C_Report.html"

PrintPath == "IB_CS_HL_Criterion_C_Report_Print.html"

OutputPaths == {PdfPath, HtmlPath, PrintPath}

Paths == {SourcePath} \cup OutputPaths

Entries == {"generate_pdf_report", "simple_pdf_generator"}

Functions == {"convert_markdown_to_pdf", "create_simplified_pdf",
              "convert_markdown_to_html", "create_simple_html"}

-----------------------------------------------------------------------------
(* Files *)

Missing == [exists |-> FALSE, data |-> <<>>]

File(d) == [exists |-> TRUE, data |-> d]

\* A source check that never fails.
ExistsAlways(f, p) == TRUE

\* Path.exists()
Exists(f, p) == f[p].exists

\* open(p, 'a'): what is written is appended to what the file held.
WriteFileAppend(f, p, d) ==
    [f EXCEPT ![p] = File((IF f[p].exists THEN f[p].data ELSE <<>>) \o d)]

\* open(p, 'w') followed by f.write(d): the file is created or truncated,
\* then holds exactly d.
WriteFile(f, p, d) == [f EXCEPT ![p] = File(d)]

\* f.write(d) on a file object opened for writing: d goes to the end of
\* what the file holds.
FileWrite(f, p, d) == [f EXCEPT ![p] = File(f[p].data \o d)]

\* A file object that is never closed (f = open(...) without with or close).
WithExitLeak(h, p) == h

\* Leaving a with block, normally or by an exception: the file object of
\* path p is closed.
WithExit(h, p) == h \ {p}

\* The record of one open() call.
Open(log, p, mode, fn) == Append(log, [path |-> p, mode |-> mode, fn |-> fn])

\* print(): one entry per call.
Emit(o, msgs) == o \o msgs

-----------------------------------------------------------------------------
(* The Markdown transform and the three HTML templates *)

Blocks == {"heading", "table", "fence", "text"}

RECURSIVE SeqsUpTo(_, _)
SeqsUpTo(S, n) ==
    IF n = 0 THEN {<<>>}
    ELSE LET shorter == SeqsUpTo(S, n - 1)
         IN  shorter \cup {Append(s, x) : s \in shorter, x \in S}

Texts == SeqsUpTo(Blocks, MaxBlocks)

\* markdown.markdown(text, extensions=exts), block by block: an extension
\* that is not enabled leaves its construct to the paragraph rule.
MarkdownBlock(b, exts) ==
    CASE b = "heading" ->
            IF "toc" \in exts THEN "<h1 id>" ELSE "<h1>"
      [] b = "table" ->
            IF "tables" \in exts THEN "<table>" ELSE "<p>table</p>"
      [] b = "fence" ->
            IF "fenced_code" \in exts
            THEN IF "codehilite" \in exts
                 THEN "<div class=codehilite><pre>"
                 ELSE "<pre><code>"
            ELSE "<p><code>"
      [] OTHER -> "<p>"

Markdown(text, exts) == [i \in 1..Len(text) |-> MarkdownBlock(text[i], exts)]

\* The f-string templates: head with the style rules, then the body.
HtmlDocument(style, html) ==
    <<"<!DOCTYPE html>", style, "<body>">> \o html \o <<"</body>">>

\* The tokens of a written HTML file between <body> and </body>.
Body(d) == IF Len(d) >= 4 THEN SubSeq(d, 4, Len(d) - 1) ELSE <<>>

\* The style rules embedded in a written HTML file.
Style(d) == IF Len(d) >= 2 THEN d[2] ELSE ""

-----------------------------------------------------------------------------
(* What each conversion function is written with *)

\* extensions=[...] of convert_markdown_to_pdf
convert_markdown_to_pdf_extensions ==
    {"tables", "fenced_code", "toc", "codehilite"}

\* extensions=[...] of create_simplified_pdf
create_simplified_pdf_extensions ==
    {"tables", "fenced_code", "toc", "codehilite"}

\* extensions=[...] of convert_markdown_to_html
convert_markdown_to_html_extensions ==
    {"tables", "fenced_code", "toc", "codehilite"}

\* An extension list that lost the tables extension.
create_simple_html_extensions_no_tables == {"fenced_code", "toc", "codehilite"}

\* extensions=[...] of create_simple_html
create_simple_html_extensions ==
    {"tables", "fenced_code", "toc", "codehilite"}

\* The fallback's open() given the name of the source file.
create_simplified_pdf_output_source == SourcePath

\* A wrong file name in the fallback's open().
create_simplified_pdf_output_wrong == PrintPath

\* The file each function opens for writing.
create_simplified_pdf_output == HtmlPath

convert_markdown_to_html_output == HtmlPath

create_simple_html_output == PrintPath

\* The style rules of each template.
convert_markdown_to_pdf_style == "<style> body Times New Roman, margin 40px </style>"

create_simplified_pdf_style == "<style> body Arial, margin 40px </style>"

convert_markdown_to_html_style == "<style> @page A4 2.5cm </style>"

create_simple_html_style == "<style> @media print, @page A4 2cm </style>"

\* pdfkit.from_string(html_document, path, options): what a successful
\* render leaves in the PDF file.
PdfOf(html_document) == <<"%PDF">> \o html_document

\* The ways pdfkit.from_string can end: it returns, or it raises because the
\* wkhtmltopdf binary is not found, or because wkhtmltopdf reports an error.
RendererOutcomes == {"ok", "binary_missing", "render_error"}

RendererFailures == RendererOutcomes \ {"ok"}

NoReturns == [fn \in Functions |-> "none"]

-----------------------------------------------------------------------------
(* Initial states: a working directory and a freshly started process *)

StaleFile == File(<<"stale">>)

Directories ==
    {[p \in Paths |-> IF p = SourcePath THEN src ELSE outs[p]] :
        src \in {Missing} \cup {File(t) : t \in Texts},
        outs \in [OutputPaths -> {Missing, StaleFile}]}

Init ==
    /\ fs \in Directories
    /\ entry \in Entries
    /\ pdfkitInstalled \in BOOLEAN
    /\ pc = "import"
    /\ markdown_content = <<>>
    /\ ret = NoReturns
    /\ out = <<>>
    /\ renderOutcome = "none"
    /\ opens = <<>>
    /\ fsAtStart = fs
    /\ run = 1
    /\ prev = <<>>
    /\ handles = {}
    /\ calls = <<>>

\* What no step of a running process changes.
ProcessFrame == UNCHANGED <<entry, pdfkitInstalled, fsAtStart, run, prev>>

-----------------------------------------------------------------------------
(* The three steps every conversion function is made of *)

\* markdown_file = Path(...); if not markdown_file.exists(): print; return False
SourceCheck(fn, here, readPc, retPc) ==
    /\ pc = here
    /\ calls' = Append(calls, fn)
    /\ IF Exists(fs, SourcePath)
       THEN /\ pc' = readPc
            /\ UNCHANGED <<out, ret>>
       ELSE /\ out' = Emit(out, <<"Error: IB_CS_HL_Criterion_C_Report.md not found!">>)
            /\ ret' = [ret EXCEPT ![fn] = "False"]
            /\ pc' = retPc
    /\ UNCHANGED <<fs, markdown_content, renderOutcome, opens, handles>>
    /\ ProcessFrame

\* with open(markdown_file, 'r', encoding='utf-8') as f: markdown_content = f.read()
\* open() of a missing file raises FileNotFoundError, which nothing catches.
SourceRead(fn, here, next) ==
    /\ pc = here
    /\ IF Exists(fs, SourcePath)
       THEN /\ markdown_content' = fs[SourcePath].data
            /\ opens' = Open(opens, SourcePath, "r", fn)
            /\ pc' = next
       ELSE /\ pc' = "crashed"
            /\ UNCHANGED <<markdown_content, opens>>
    /\ UNCHANGED <<fs, ret, out, renderOutcome>>
    /\ UNCHANGED <<handles, calls>>
    /\ ProcessFrame

\* with open(path, 'w', encoding='utf-8') as f:
\* mode 'w' creates the file or truncates it; f is open inside the block.
HtmlOpen(fn, here, path) ==
    /\ pc = here
    /\ path \notin handles
    /\ fs' = WriteFile(fs, path, <<>>)
    /\ handles' = handles \cup {path}
    /\ opens' = Open(opens, path, "w", fn)
    /\ UNCHANGED <<pc, markdown_content, ret, out, renderOutcome, calls>>
    /\ ProcessFrame

\* html = markdown.markdown(...); html_document = f"""..."""
\* f.write(html_document); the with block is left, which closes f;
\* print(...); return True
HtmlWrite(fn, here, retPc, exts, style, path, msgs) ==
    /\ pc = here
    /\ path \in handles
    /\ LET html == Markdown(markdown_content, exts)
           html_document == HtmlDocument(style, html)
       IN  fs' = FileWrite(fs, path, html_document)
    /\ handles' = WithExit(handles, path)
    /\ out' = Emit(out, msgs)
    /\ ret' = [ret EXCEPT ![fn] = "True"]
    /\ markdown_content' = <<>>
    /\ pc' = retPc
    /\ UNCHANGED <<renderOutcome, opens, calls>>
    /\ ProcessFrame

-----------------------------------------------------------------------------
(* generate_pdf_report.py *)

\* import markdown; import pdfkit; from pathlib import Path; import re
\* A missing pdfkit raises ImportError at module level.
generate_pdf_report_imports ==
    /\ entry = "generate_pdf_report"
    /\ pc = "import"
    /\ pc' = IF pdfkitInstalled THEN "main_start" ELSE "crashed"
    /\ UNCHANGED <<fs, markdown_content, ret, out, renderOutcome, opens>>
    /\ UNCHANGED <<handles, calls>>
    /\ ProcessFrame

generate_pdf_report_main_start ==
    /\ entry = "generate_pdf_report"
    /\ pc = "main_start"
    /\ out' = Emit(out, <<"Generating IB Computer Science HL Criterion C Report...">>)
    /\ pc' = "pdf_exists"
    /\ UNCHANGED <<fs, markdown_content, ret, renderOutcome, opens>>
    /\ UNCHANGED <<handles, calls>>
    /\ ProcessFrame

convert_markdown_to_pdf_exists ==
    SourceCheck("convert_markdown_to_pdf", "pdf_exists", "pdf_read", "main_if")

convert_markdown_to_pdf_read ==
    SourceRead("convert_markdown_to_pdf", "pdf_read", "pdf_render")

\* html, html_document, options, then try: pdfkit.from_string(...) except Exception
convert_markdown_to_pdf_render ==
    /\ pc = "pdf_render"
    /\ \E outcome \in RendererOutcomes :
        LET html == Markdown(markdown_content, convert_markdown_to_pdf_extensions)
            html_document == HtmlDocument(convert_markdown_to_pdf_style, html)
        IN  /\ renderOutcome' = outcome
            /\ IF outcome = "ok"
               THEN /\ fs' = WriteFile(fs, PdfPath, PdfOf(html_document))
                    /\ opens' = Open(opens, PdfPath, "w", "convert_markdown_to_pdf")
                    /\ out' = Emit(out, <<"PDF report generated successfully: IB_CS_HL_Criterion_C_Report.pdf">>)
                    /\ ret' = [ret EXCEPT !["convert_markdown_to_pdf"] = "True"]
               ELSE /\ out' = Emit(out, <<"Error generating PDF",
                                          "Note: You may need to install wkhtmltopdf:",
                                          "  - macOS: brew install wkhtmltopdf",
                                          "  - Ubuntu: sudo apt-get install wkhtmltopdf",
                                          "  - Windows: Download from https://wkhtmltopdf.org/downloads.html">>)
                    /\ ret' = [ret EXCEPT !["convert_markdown_to_pdf"] = "False"]
                    /\ UNCHANGED <<fs, opens>>
    /\ markdown_content' = <<>>
    /\ pc' = "main_if"
    /\ calls' = Append(calls, "pdfkit.from_string")
    /\ UNCHANGED handles
    /\ ProcessFrame

\* An else branch that tries the PDF conversion again.
generate_pdf_report_retry == "pdf_exists"

\* Where the else branch of __main__ goes: create_simplified_pdf()
generate_pdf_report_fallback == "simplified_exists"

\* A __main__ that runs the HTML fallback whatever convert_markdown_to_pdf
\* returned.
generate_pdf_report_main_if_always_fallback ==
    /\ entry = "generate_pdf_report"
    /\ pc = "main_if"
    /\ out' = Emit(out, <<"PDF generation failed, creating HTML version instead...">>)
    /\ pc' = generate_pdf_report_fallback
    /\ UNCHANGED <<fs, markdown_content, ret, renderOutcome, opens>>
    /\ UNCHANGED <<handles, calls>>
    /\ ProcessFrame

\* if convert_markdown_to_pdf(): print, print  else: print, create_simplified_pdf()
generate_pdf_report_main_if ==
    /\ entry = "generate_pdf_report"
    /\ pc = "main_if"
    /\ IF ret["convert_markdown_to_pdf"] = "True"
       THEN /\ out' = Emit(out, <<"Report successfully converted to PDF!",
                                  "   File: IB_CS_HL_Criterion_C_Report.pdf">>)
            /\ pc' = "main_end"
       ELSE /\ out' = Emit(out, <<"PDF generation failed, creating HTML version instead...">>)
            /\ pc' = generate_pdf_report_fallback
    /\ UNCHANGED <<fs, markdown_content, ret, renderOutcome, opens>>
    /\ UNCHANGED <<handles, calls>>
    /\ ProcessFrame

create_simplified_pdf_exists ==
    SourceCheck("create_simplified_pdf", "simplified_exists", "simplified_read",
                "main_after_fallback")

create_simplified_pdf_read ==
    SourceRead("create_simplified_pdf", "simplified_read", "simplified_write")

create_simplified_pdf_open ==
    HtmlOpen("create_simplified_pdf", "simplified_write", create_simplified_pdf_output)

create_simplified_pdf_write ==
    HtmlWrite("create_simplified_pdf", "simplified_write", "main_after_fallback",
              create_simplified_pdf_extensions, create_simplified_pdf_style,
              create_simplified_pdf_output,
              <<"HTML report generated: IB_CS_HL_Criterion_C_Report.html",
                "   You can open this file in a web browser and print to PDF">>)

\* The three prints that follow create_simplified_pdf(), whatever it returned.
generate_pdf_report_main_after_fallback ==
    /\ entry = "generate_pdf_report"
    /\ pc = "main_after_fallback"
    /\ out' = Emit(out, <<"HTML report created!",
                          "   File: IB_CS_HL_Criterion_C_Report.html",
                          "   You can open this in a browser and print to PDF">>)
    /\ pc' = "main_end"
    /\ UNCHANGED <<fs, markdown_content, ret, renderOutcome, opens>>
    /\ UNCHANGED <<handles, calls>>
    /\ ProcessFrame

generate_pdf_report_main_end ==
    /\ entry = "generate_pdf_report"
    /\ pc = "main_end"
    /\ out' = Emit(out, <<"Report generation complete!">>)
    /\ pc' = "done"
    /\ UNCHANGED <<fs, markdown_content, ret, renderOutcome, opens>>
    /\ UNCHANGED <<handles, calls>>
    /\ ProcessFrame

-----------------------------------------------------------------------------
(* simple_pdf_generator.py *)

\* import markdown; import os; from pathlib import Path
simple_pdf_generator_imports ==
    /\ entry = "simple_pdf_generator"
    /\ pc = "import"
    /\ pc' = "main_start"
    /\ UNCHANGED <<fs, markdown_content, ret, out, renderOutcome, opens>>
    /\ UNCHANGED <<handles, calls>>
    /\ ProcessFrame

simple_pdf_generator_main_start ==
    /\ entry = "simple_pdf_generator"
    /\ pc = "main_start"
    /\ out' = Emit(out, <<"Generating IB Computer Science HL Criterion C Report...">>)
    /\ pc' = "html_exists"
    /\ UNCHANGED <<fs, markdown_content, ret, renderOutcome, opens>>
    /\ UNCHANGED <<handles, calls>>
    /\ ProcessFrame

convert_markdown_to_html_exists ==
    SourceCheck("convert_markdown_to_html", "html_exists", "html_read", "main_if_html")

convert_markdown_to_html_read ==
    SourceRead("convert_markdown_to_html", "html_read", "html_write")

convert_markdown_to_html_open ==
    HtmlOpen("convert_markdown_to_html", "html_write", convert_markdown_to_html_output)

convert_markdown_to_html_write ==
    HtmlWrite("convert_markdown_to_html", "html_write", "main_if_html",
              convert_markdown_to_html_extensions, convert_markdown_to_html_style,
              convert_markdown_to_html_output,
              <<"HTML report generated: IB_CS_HL_Criterion_C_Report.html">>)

\* A __main__ that prints the message without testing the return value.
simple_pdf_generator_main_if_html_unconditional ==
    /\ entry = "simple_pdf_generator"
    /\ pc = "main_if_html"
    /\ out' = Emit(out, <<"Standard HTML report created!">>)
    /\ pc' = "print_exists"
    /\ UNCHANGED <<fs, markdown_content, ret, renderOutcome, opens>>
    /\ UNCHANGED <<handles, calls>>
    /\ ProcessFrame

\* if convert_markdown_to_html(): print(...)
simple_pdf_generator_main_if_html ==
    /\ entry = "simple_pdf_generator"
    /\ pc = "main_if_html"
    /\ out' = IF ret["convert_markdown_to_html"] = "True"
              THEN Emit(out, <<"Standard HTML report created!">>)
              ELSE out
    /\ pc' = "print_exists"
    /\ UNCHANGED <<fs, markdown_content, ret, renderOutcome, opens>>
    /\ UNCHANGED <<handles, calls>>
    /\ ProcessFrame

create_simple_html_exists ==
    SourceCheck("create_simple_html", "print_exists", "print_read", "main_if_print")

create_simple_html_read ==
    SourceRead("create_simple_html", "print_read", "print_write")

create_simple_html_open ==
    HtmlOpen("create_simple_html", "print_write", create_simple_html_output)

create_simple_html_write ==
    HtmlWrite("create_simple_html", "print_write", "main_if_print",
              create_simple_html_extensions, create_simple_html_style,
              create_simple_html_output,
              <<"Print-optimized HTML report generated: IB_CS_HL_Criterion_C_Report_Print.html">>)

\* if create_simple_html(): print(...)
simple_pdf_generator_main_if_print ==
    /\ entry = "simple_pdf_generator"
    /\ pc = "main_if_print"
    /\ out' = IF ret["create_simple_html"] = "True"
              THEN Emit(out, <<"Print-optimized HTML report created!">>)
              ELSE out
    /\ pc' = "main_tail"
    /\ UNCHANGED <<fs, markdown_content, ret, renderOutcome, opens>>
    /\ UNCHANGED <<handles, calls>>
    /\ ProcessFrame

\* The unconditional prints that end __main__.
simple_pdf_generator_main_tail ==
    /\ entry = "simple_pdf_generator"
    /\ pc = "main_tail"
    /\ out' = Emit(out, <<"Reports generated successfully!",
                          "   Files created:",
                          "   - IB_CS_HL_Criterion_C_Report.html (standard version)",
                          "   - IB_CS_HL_Criterion_C_Report_Print.html (print-optimized)",
                          "To convert to PDF:",
                          "   1. Open either HTML file in a web browser",
                          "   2. Press Ctrl+P (or Cmd+P on Mac)",
                          "   3. Select 'Save as PDF' as destination",
                          "   4. Choose 'More settings' and set margins to 'Minimum'",
                          "   5. Click 'Save'",
                          "Report generation complete!">>)
    /\ pc' = "done"
    /\ UNCHANGED <<fs, markdown_content, ret, renderOutcome, opens>>
    /\ UNCHANGED <<handles, calls>>
    /\ ProcessFrame

-----------------------------------------------------------------------------
(* Process start and end *)

Ended == pc \in {"done", "crashed"}

\* The script is started again in the same working directory: a fresh
\* process, which keeps nothing of the previous one but the files.
StartRun ==
    /\ Ended
    /\ run < MaxRuns
    /\ run' = run + 1
    /\ prev' = <<[entry |-> entry, pdfkitInstalled |-> pdfkitInstalled,
                  renderOutcome |-> renderOutcome, ended |-> pc, fs |-> fs]>>
    /\ entry' \in Entries
    /\ pdfkitInstalled' \in BOOLEAN
    /\ pc' = "import"
    /\ markdown_content' = <<>>
    /\ ret' = NoReturns
    /\ out' = <<>>
    /\ renderOutcome' = "none"
    /\ opens' = <<>>
    /\ fsAtStart' = fs
    /\ handles' = {}
    /\ calls' = <<>>
    /\ UNCHANGED fs

Next ==
    \/ generate_pdf_report_imports
    \/ generate_pdf_report_main_start
    \/ convert_markdown_to_pdf_exists
    \/ convert_markdown_to_pdf_read
    \/ convert_markdown_to_pdf_render
    \/ generate_pdf_report_main_if
    \/ create_simplified_pdf_exists
    \/ create_simplified_pdf_read
    \/ create_simplified_pdf_open
    \/ create_simplified_pdf_write
    \/ generate_pdf_report_main_after_fallback
    \/ generate_pdf_report_main_end
    \/ simple_pdf_generator_imports
    \/ simple_pdf_generator_main_start
    \/ convert_markdown_to_html_exists
    \/ convert_markdown_to_html_read
    \/ convert_markdown_to_html_open
    \/ convert_markdown_to_html_write
    \/ simple_pdf_generator_main_if_html
    \/ create_simple_html_exists
    \/ create_simple_html_read
    \/ create_simple_html_open
    \/ create_simple_html_write
    \/ simple_pdf_generator_main_if_print
    \/ simple_pdf_generator_main_tail
    \/ StartRun

\* Every file operation on an existing, accessible file succeeds.
Spec == Init /\ [][Next]_vars

-----------------------------------------------------------------------------
(* File operations that raise *)

\* open(markdown_file, 'r') or f.read() raises (PermissionError, a source
\* that is not UTF-8, ...): nothing catches it, the process ends in a traceback.
SourceReadFault(here) ==
    /\ pc = here
    /\ pc' = "crashed"
    /\ UNCHANGED <<fs, markdown_content, ret, out, renderOutcome, opens>>
    /\ UNCHANGED <<handles, calls>>
    /\ ProcessFrame

\* open(path, 'w') raises (the file is left as it was), or f.write raises
\* inside the with block (the file stays truncated, leaving the block closes
\* f): nothing catches it.
HtmlWriteFault(fn, here, path) ==
    /\ pc = here
    /\ handles' = IF path \in handles THEN WithExit(handles, path) ELSE handles
    /\ pc' = "crashed"
    /\ UNCHANGED <<fs, opens, markdown_content, ret, out, renderOutcome, calls>>
    /\ ProcessFrame

convert_markdown_to_pdf_read_raises == SourceReadFault("pdf_read")

create_simplified_pdf_read_raises == SourceReadFault("simplified_read")

create_simplified_pdf_write_raises ==
    HtmlWriteFault("create_simplified_pdf", "simplified_write",
                   create_simplified_pdf_output)

convert_markdown_to_html_read_raises == SourceReadFault("html_read")

convert_markdown_to_html_write_raises ==
    HtmlWriteFault("convert_markdown_to_html", "html_write",
                   convert_markdown_to_html_output)

create_simple_html_read_raises == SourceReadFault("print_read")

create_simple_html_write_raises ==
    HtmlWriteFault("create_simple_html", "print_write", create_simple_html_output)

NextFault ==
    \/ Next
    \/ convert_markdown_to_pdf_read_raises
    \/ create_simplified_pdf_read_raises
    \/ create_simplified_pdf_write_raises
    \/ convert_markdown_to_html_read_raises
    \/ convert_markdown_to_html_write_raises
    \/ create_simple_html_read_raises
    \/ create_simple_html_write_raises

\* The same program where file operations may also raise.
SpecFault == Init /\ [][NextFault]_vars

-----------------------------------------------------------------------------
(* Vocabulary of the properties *)

GenerateRun == entry = "generate_pdf_report"

SimpleRun == entry = "simple_pdf_generator"

SourceMissing == fs[SourcePath] = Missing

Printed(m) == \E i \in DOMAIN out : out[i] = m

TimesPrinted(m) == Cardinality({i \in DOMAIN out : out[i] = m})

\* The paths this process has opened for writing.
Written == {opens[i].path : i \in {j \in DOMAIN opens : opens[j].mode = "w"}}

\* How many times this process has opened the source for reading.
SourceReads ==
    Cardinality({i \in DOMAIN opens :
                    opens[i].path = SourcePath /\ opens[i].mode = "r"})

SourceReadsBy(fn) ==
    Cardinality({i \in DOMAIN opens :
                    /\ opens[i].path = SourcePath
                    /\ opens[i].mode = "r"
                    /\ opens[i].fn = fn})

NotFoundMessage == "Error: IB_CS_HL_Criterion_C_Report.md not found!"

FallbackMessage == "PDF generation failed, creating HTML version instead..."

CompleteMessage == "Report generation complete!"

\* Positions inside a conversion function after its source check.
BodyPcs == {"pdf_read", "pdf_render", "simplified_read", "simplified_write",
            "html_read", "html_write", "print_read", "print_write"}

\* Positions of the HTML fallback of generate_pdf_report.
FallbackPcs == {"simplified_exists", "simplified_read", "simplified_write",
                "main_after_fallback"}

-----------------------------------------------------------------------------
(* C1 *)

-----------------------------------------------------------------------------
(* C2 *)

\* C2: while the source file is absent, no output file is created or
\* modified, no conversion function gets past its source check (no read,
\* render or write), every conversion function that was called returned
\* False, and a complete run of either entry point called both of its
\* conversion functions with that result.
C2_NoSourceNoOutput ==
    (SourceMissing /\ fsAtStart[SourcePath] = Missing) =>
        /\ \A p \in OutputPaths : fs[p] = fsAtStart[p]
        /\ Written = {}
        /\ opens = <<>>
        /\ renderOutcome = "none"
        /\ pc \notin BodyPcs
        /\ pc # "crashed" \/ (GenerateRun /\ ~pdfkitInstalled)
        /\ \A fn \in Functions : ret[fn] # "True"
        /\ (pc = "done" /\ GenerateRun) =>
              /\ ret["convert_markdown_to_pdf"] = "False"
              /\ ret["create_simplified_pdf"] = "False"
        /\ (pc = "done" /\ SimpleRun) =>
              /\ ret["convert_markdown_to_html"] = "False"
              /\ ret["create_simple_html"] = "False"

C2_Witness ==
    /\ SourceMissing
    /\ run = MaxRuns
    /\ pc = "done"
    /\ SimpleRun
    /\ ret["create_simple_html"] = "False"
    /\ prev[1].entry = "generate_pdf_report"
    /\ prev[1].ended = "done"
    /\ fs[HtmlPath] = StaleFile

-----------------------------------------------------------------------------
(* C3 *)

\* The output files a printed message names as generated or created.
NamedCreated(m) ==
    CASE m = "PDF report generated successfully: IB_CS_HL_Criterion_C_Report.pdf" -> {PdfPath}
      [] m = "Report successfully converted to PDF!" -> {PdfPath}
      [] m = "   File: IB_CS_HL_Criterion_C_Report.pdf" -> {PdfPath}
      [] m = "HTML report generated: IB_CS_HL_Criterion_C_Report.html" -> {HtmlPath}
      [] m = "HTML report created!" -> {HtmlPath}
      [] m = "   File: IB_CS_HL_Criterion_C_Report.html" -> {HtmlPath}
      [] m = "Standard HTML report created!" -> {HtmlPath}
      [] m = "   - IB_CS_HL_Criterion_C_Report.html (standard version)" -> {HtmlPath}
      [] m = "Print-optimized HTML report generated: IB_CS_HL_Criterion_C_Report_Print.html" -> {PrintPath}
      [] m = "Print-optimized HTML report created!" -> {PrintPath}
      [] m = "   - IB_CS_HL_Criterion_C_Report_Print.html (print-optimized)" -> {PrintPath}
      [] OTHER -> {}

\* C3: every output file that a message printed by this run names as
\* created was written by this run.
C3_ReportedFilesWereWritten ==
    \A i \in DOMAIN out : NamedCreated(out[i]) \subseteq Written

-----------------------------------------------------------------------------
(* C4 *)

\* C4: in a run of generate_pdf_report where the renderer is unavailable
\* (pdfkit cannot be imported, the wkhtmltopdf binary is missing, or the
\* render call errors) the process does not end in an error, and when it
\* has ended it has taken the HTML fallback path.
C4_RendererUnavailableNonFatal ==
    (GenerateRun /\ (~pdfkitInstalled \/ renderOutcome \in RendererFailures)) =>
        /\ pc # "crashed"
        /\ Ended => Printed(FallbackMessage)

-----------------------------------------------------------------------------
(* C5 *)

\* C5: once a run of generate_pdf_report has reported the source missing,
\* it attempts no further conversion step: the fallback is not entered and
\* the source is not checked or reported missing a second time.
C5_AbortsAfterSourceNotFound ==
    (GenerateRun /\ Printed(NotFoundMessage)) =>
        /\ pc \notin FallbackPcs
        /\ ~Printed(FallbackMessage)
        /\ ret["create_simplified_pdf"] = "none"
        /\ TimesPrinted(NotFoundMessage) <= 1

-----------------------------------------------------------------------------
(* C6 *)

\* The run that has just ended repeats the previous one: same entry point,
\* same renderer availability and outcome, same way of ending.
SameRunAgain ==
    /\ prev # <<>>
    /\ Ended
    /\ prev[1].entry = entry
    /\ prev[1].pdfkitInstalled = pdfkitInstalled
    /\ prev[1].renderOutcome = renderOutcome
    /\ prev[1].ended = pc

\* C6: when an entry point has run a second time on the same source with
\* the same renderer outcome, both HTML output files are the same, token
\* for token, as after the first of the two runs.
C6_SecondRunSameHtml ==
    SameRunAgain =>
        /\ fs[HtmlPath] = prev[1].fs[HtmlPath]
        /\ fs[PrintPath] = prev[1].fs[PrintPath]

C6_Witness ==
    /\ SameRunAgain
    /\ run = 2
    /\ pc = "done"
    /\ Written = {HtmlPath}
    /\ renderOutcome = "render_error"
    /\ Len(fs[SourcePath].data) = MaxBlocks
    /\ fs[HtmlPath] = prev[1].fs[HtmlPath]
    /\ fs[PrintPath] = StaleFile

-----------------------------------------------------------------------------
(* C7 *)

\* C7: after a run of simple_pdf_generator with the source present, the
\* print-optimized file and the standard file were both written by the run,
\* embed the same body (the transform of the source under the same
\* extension list) and differ in their style rules and in nothing else.
C7_PrintBodyEqualsStandardBody ==
    (SimpleRun /\ pc = "done" /\ ~SourceMissing) =>
        LET standard == fs[HtmlPath].data
            printed == fs[PrintPath].data
        IN  /\ {HtmlPath, PrintPath} \subseteq Written
            /\ Body(printed) = Body(standard)
            /\ Body(standard) = Markdown(fs[SourcePath].data,
                                         convert_markdown_to_html_extensions)
            /\ Style(printed) # Style(standard)
            /\ printed = [standard EXCEPT ![2] = Style(printed)]

C7_Witness ==
    /\ SimpleRun
    /\ pc = "done"
    /\ fs[SourcePath] = File(<<"table", "fence">>)
    /\ Body(fs[PrintPath].data) = <<"<table>", "<div class=codehilite><pre>">>
    /\ Body(fs[HtmlPath].data) = Body(fs[PrintPath].data)
    /\ fsAtStart[PrintPath] = StaleFile

-----------------------------------------------------------------------------
(* C8 *)

\* C8: every run whose imports succeeded goes on to the end of the script:
\* no failure terminates the process, and a run that has ended has printed
\* the final 'Report generation complete!' message.
C8_EveryRunCompletes ==
    (SimpleRun \/ pdfkitInstalled) =>
        /\ pc # "crashed"
        /\ Ended => Printed(CompleteMessage)

-----------------------------------------------------------------------------
(* C9 *)

\* C9: in every run the source file is opened for reading at most once.
C9_SourceReadAtMostOnce == SourceReads <= 1

\* C9, amended: each conversion function opens the source for reading at
\* most once per run, a run opens it at most twice, and generate_pdf_report
\* opens it a second time only in the fallback after a renderer failure.
C9_SourceReadOncePerFunction ==
    /\ \A fn \in Functions : SourceReadsBy(fn) <= 1
    /\ SourceReads <= 2
    /\ (GenerateRun /\ SourceReads = 2) => renderOutcome \in RendererFailures
    /\ (GenerateRun /\ Ended /\ renderOutcome = "ok") => SourceReads = 1

C9_Witness ==
    /\ GenerateRun
    /\ pc = "done"
    /\ SourceReads = 2
    /\ SourceReadsBy("convert_markdown_to_pdf") = 1
    /\ SourceReadsBy("create_simplified_pdf") = 1

-----------------------------------------------------------------------------
(* C10 *)

\* C10: no step changes the source file, and every file a process opens
\* for writing is one of the three output files, none of which is the
\* source file.
C10_SourceNeverMutated ==
    /\ [][fs'[SourcePath] = fs[SourcePath]]_vars
    /\ [](/\ SourcePath \notin OutputPaths
          /\ \A i \in DOMAIN opens :
                opens[i].mode = "w" => opens[i].path \in OutputPaths)

C10_Witness ==
    /\ run = MaxRuns
    /\ pc = "done"
    /\ Written = {HtmlPath, PrintPath}
    /\ prev[1].entry = "generate_pdf_report"
    /\ prev[1].renderOutcome = "ok"
    /\ fs[SourcePath] = prev[1].fs[SourcePath]
    /\ Len(fs[SourcePath].data) = MaxBlocks

-----------------------------------------------------------------------------
(* C11 *)

\* Positions inside the with block that writes an HTML file.
WritePcs == {"simplified_write", "html_write", "print_write"}

HtmlFunctions == {"create_simplified_pdf", "convert_markdown_to_html",
                  "create_simple_html"}

\* The file an HTML-writing function writes.
OutputOf(fn) ==
    CASE fn = "create_simplified_pdf" -> create_simplified_pdf_output
      [] fn = "convert_markdown_to_html" -> convert_markdown_to_html_output
      [] fn = "create_simple_html" -> create_simple_html_output

\* The document an HTML-writing function renders from a source text.
DocumentOf(fn, text) ==
    CASE fn = "create_simplified_pdf" ->
            HtmlDocument(create_simplified_pdf_style,
                         Markdown(text, create_simplified_pdf_extensions))
      [] fn = "convert_markdown_to_html" ->
            HtmlDocument(convert_markdown_to_html_style,
                         Markdown(text, convert_markdown_to_html_extensions))
      [] fn = "create_simple_html" ->
            HtmlDocument(create_simple_html_style,
                         Markdown(text, create_simple_html_extensions))

\* C11: outside the with block of an HTML-writing function, that is once
\* the function has returned or raised, the process holds no open file
\* object on an output file; inside it holds at most that one; and when
\* such a function has returned True its file holds exactly the document
\* this run rendered, whatever the file held before.
C11_HandleReleasedFileOverwritten ==
    /\ pc \notin WritePcs => handles = {}
    /\ Cardinality(handles) <= 1
    /\ \A fn \in HtmlFunctions :
          ret[fn] = "True" =>
              /\ OutputOf(fn) \notin handles
              /\ fs[OutputOf(fn)] = File(DocumentOf(fn, fs[SourcePath].data))

C11_Witness ==
    /\ SimpleRun
    /\ pc = "crashed"
    /\ ret["convert_markdown_to_html"] = "True"
    /\ fsAtStart[HtmlPath] = StaleFile
    /\ fs[HtmlPath] = File(DocumentOf("convert_markdown_to_html", fs[SourcePath].data))
    /\ Len(fs[SourcePath].data) = MaxBlocks
    /\ fsAtStart[PrintPath] = StaleFile
    /\ fs[PrintPath] = File(<<>>)
    /\ handles = {}

-----------------------------------------------------------------------------
(* C12 *)

\* s is an initial part of t.
IsPrefix(s, t) == Len(s) <= Len(t) /\ s = SubSeq(t, 1, Len(s))

TimesCalled(c) == Cardinality({i \in DOMAIN calls : calls[i] = c})

\* The calls of generate_pdf_report in the order the script can make them.
GenerateCallOrder ==
    <<"convert_markdown_to_pdf", "pdfkit.from_string", "create_simplified_pdf">>

\* C12: in a run of generate_pdf_report the PDF conversion comes first, the
\* renderer is called at most once, the HTML fallback runs at most once and
\* only after convert_markdown_to_pdf returned False, and after a successful
\* render the run has not called the fallback nor written the HTML file,
\* which is as it was when the run started.
C12_PdfFirstSingleFallback ==
    GenerateRun =>
        /\ calls # <<>> => calls[1] = "convert_markdown_to_pdf"
        /\ \/ IsPrefix(calls, GenerateCallOrder)
           \/ calls = <<"convert_markdown_to_pdf", "create_simplified_pdf">>
        /\ TimesCalled("pdfkit.from_string") <= 1
        /\ TimesCalled("create_simplified_pdf") <= 1
        /\ (TimesCalled("create_simplified_pdf") = 1 \/ pc \in FallbackPcs) =>
              ret["convert_markdown_to_pdf"] = "False"
        /\ renderOutcome = "ok" =>
              /\ ret["convert_markdown_to_pdf"] = "True"
              /\ TimesCalled("create_simplified_pdf") = 0
              /\ pc \notin FallbackPcs
              /\ HtmlPath \notin Written
              /\ fs[HtmlPath] = fsAtStart[HtmlPath]

C12_Witness ==
    /\ GenerateRun
    /\ pc = "done"
    /\ renderOutcome = "ok"
    /\ calls = <<"convert_markdown_to_pdf", "pdfkit.from_string">>
    /\ fs[HtmlPath] = StaleFile
    /\ Written = {PdfPath}
    /\ Len(fs[SourcePath].data) = MaxBlocks

-----------------------------------------------------------------------------
(* C13 *)

\* The calls of simple_pdf_generator in the order the script makes them.
SimpleCallOrder == <<"convert_markdown_to_html", "create_simple_html">>

\* Positions of simple_pdf_generator after convert_markdown_to_html returned.
AfterHtmlPcs == {"main_if_html", "print_exists", "print_read", "print_write",
                 "main_if_print", "main_tail", "done"}

\* Positions of simple_pdf_generator after create_simple_html was called
\* and returned.
AfterPrintPcs == {"main_if_print", "main_tail", "done"}

\* C13: in a run of simple_pdf_generator the standard conversion is called
\* first and the print-optimized one second; once convert_markdown_to_html
\* has returned, True or False, create_simple_html is called next; each
\* 'created!' message is printed only if its own conversion returned True;
\* and a conversion has returned True only with its own output file
\* written by this run and holding its document.
C13_FixedOrderIndependentVariants ==
    SimpleRun =>
        /\ IsPrefix(calls, SimpleCallOrder)
        /\ pc \in AfterHtmlPcs => ret["convert_markdown_to_html"] \in {"True", "False"}
        /\ pc \in AfterPrintPcs =>
              /\ calls = SimpleCallOrder
              /\ ret["create_simple_html"] \in {"True", "False"}
        /\ Printed("Standard HTML report created!") =>
              ret["convert_markdown_to_html"] = "True"
        /\ Printed("Print-optimized HTML report created!") =>
              ret["create_simple_html"] = "True"
        /\ \A fn \in {"convert_markdown_to_html", "create_simple_html"} :
              ret[fn] = "True" =>
                  /\ OutputOf(fn) \in Written
                  /\ fs[OutputOf(fn)].exists
                  /\ fs[OutputOf(fn)].data = DocumentOf(fn, fs[SourcePath].data)

C13_Witness ==
    /\ SimpleRun
    /\ pc = "done"
    /\ calls = SimpleCallOrder
    /\ ret["convert_markdown_to_html"] = "True"
    /\ ret["create_simple_html"] = "True"
    /\ Printed("Standard HTML report created!")
    /\ Printed("Print-optimized HTML report created!")
    /\ fs[SourcePath] = File(<<"heading", "text">>)
    /\ fsAtStart[HtmlPath] = Missing

====
